---- MODULE Spec2Model ----
(***************************************************************************)
(* Model of buildArchitecture.py: the BuildManager orchestration over the  *)
(* container handlers (Ignition, Modbus, MSSQL), the compose writer, and   *)
(* the MSSQL backup-file helpers.                                          *)
(*                                                                         *)
(* Python str values that the program parses or assembles are modelled as  *)
(* sequences of one-character strings, so that split, rfind, lower, the    *)
(* regular expressions and the string comparisons are computed as the code *)
(* computes them.  In the code-point table the    *)
(* three characters the lexer cannot hold are stood in for by their names; *)
(* they occur in none of the strings below.                                *)
(***************************************************************************)
EXTENDS Integers, Sequences, FiniteSets, TLC

\* A value that may be None is None or Some(v).
None == [none |-> TRUE]

Some(v) == [some |-> v]

(***************************************************************************)
(* Literal strings of the program.                                         *)
(***************************************************************************)
Ascii ==
    <<" ", "!", "DQUOTE", "#", "$", "%", "&", "'", "(", ")", "*", "+", ",", "-", ".", "/", "0", "1", "2", "3", "4", "5", "6", "7", "8", "9", ":", ";", "<", "=", ">", "?", "@", "A", "B", "C", "D", "E", "F", "G", "H", "I", "J", "K", "L", "M", "N", "O", "P", "Q", "R", "S", "T", "U", "V", "W", "X", "Y", "Z", "[", "BACKSLASH", "]", "^", "_", "BACKTICK", "a", "b", "c", "d", "e", "f", "g", "h", "i", "j", "k", "l", "m", "n", "o", "p", "q", "r", "s", "t", "u", "v", "w", "x", "y", "z", "{", "|", "}", "~">>
KeyIgnition ==
    <<"i", "n", "d", "u", "c", "t", "i", "v", "e", "a", "u", "t", "o", "m", "a", "t", "i", "o", "n", "/", "i", "g", "n", "i", "t", "i", "o", "n">>
KeyMSSQL ==
    <<"k", "c", "o", "l", "l", "i", "n", "s", "/", "m", "s", "s", "q", "l">>
KeyModbus ==
    <<"q", "p", "a", "d", "g", "h", "a", "m", "/", "m", "y", "m", "o", "d", "b", "u", "s">>
IgnitionMarker ==
    <<"b", "a", "c", "k", "u", "p", " ", "s", "a", "v", "e", "d">>
MSSQLMarker ==
    <<"B", "A", "C", "K", "U", "P", " ", "D", "A", "T", "A", "B", "A", "S", "E">>
IgnitionEula ==
    <<"A", "C", "C", "E", "P", "T", "_", "I", "G", "N", "I", "T", "I", "O", "N", "_", "E", "U", "L", "A", "=", "Y">>
MSSQLEula ==
    <<"A", "C", "C", "E", "P", "T", "_", "E", "U", "L", "A", "=", "Y">>
SaPrefix ==
    <<"S", "A", "_", "P", "A", "S", "S", "W", "O", "R", "D", "=">>
FileRedundancy ==
    <<"/", "u", "s", "r", "/", "l", "o", "c", "a", "l", "/", "b", "i", "n", "/", "i", "g", "n", "i", "t", "i", "o", "n", "/", "d", "a", "t", "a", "/", "r", "e", "d", "u", "n", "d", "a", "n", "c", "y", ".", "x", "m", "l">>
FileUuid ==
    <<"/", "u", "s", "r", "/", "l", "o", "c", "a", "l", "/", "b", "i", "n", "/", "i", "g", "n", "i", "t", "i", "o", "n", "/", "d", "a", "t", "a", "/", ".", "u", "u", "i", "d">>
FileKeystore ==
    <<"/", "u", "s", "r", "/", "l", "o", "c", "a", "l", "/", "b", "i", "n", "/", "i", "g", "n", "i", "t", "i", "o", "n", "/", "d", "a", "t", "a", "/", "l", "o", "c", "a", "l", "/", "m", "e", "t", "r", "o", "-", "k", "e", "y", "s", "t", "o", "r", "e">>
FileGwbk ==
    <<"/", "u", "s", "r", "/", "l", "o", "c", "a", "l", "/", "b", "i", "n", "/", "i", "g", "n", "i", "t", "i", "o", "n", "/", "d", "a", "t", "a", "/", "b", "a", "c", "k", "u", "p", ".", "g", "w", "b", "k">>
FileSetup ==
    <<"/", "s", "e", "t", "u", "p", ".", "j", "s", "o", "n">>
Namespace ==
    <<"q", "p", "a", "d", "g", "h", "a", "m", "/">>
InitDbDir ==
    <<"/", "d", "o", "c", "k", "e", "r", "-", "e", "n", "t", "r", "y", "p", "o", "i", "n", "t", "-", "i", "n", "i", "t", "d", "b", ".", "d", "/">>
BakExt ==
    <<".", "b", "a", "k">>
DockerfileName ==
    <<"d", "o", "c", "k", "e", "r", "f", "i", "l", "e">>
ComposeName ==
    <<"d", "o", "c", "k", "e", "r", "-", "c", "o", "m", "p", "o", "s", "e", ".", "y", "m", "l">>
ShimName ==
    <<"e", "n", "t", "r", "y", "p", "o", "i", "n", "t", "-", "s", "h", "i", "m", ".", "s", "h">>
BuildTag ==
    <<"b", "u", "i", "l", "d">>

(***************************************************************************)
(* Python str primitives.                                                  *)
(***************************************************************************)
Ord(c) == 31 + CHOOSE i \in 1..Len(Ascii) : Ascii[i] = c

Chr(n) == Ascii[n - 31]

IsDigit(c) == c \in {"0", "1", "2", "3", "4", "5", "6", "7", "8", "9"}

\* str.isspace() on the characters of ASCII; VT, FS, GS, RS and US stand for
\* the characters 0x0b and 0x1c to 0x1f
IsSpace(c) == c \in {" ", "\t", "\n", "\r", "\f", "VT", "FS", "GS", "RS", "US"}

\* what the "." of a regular expression matches
NoLineFeed(s) == \A i \in 1..Len(s) : s[i] # "\n"

AllDigits(s) == \A i \in 1..Len(s) : IsDigit(s[i])

\* str.lower()
LowerChar(c) ==
    IF \E n \in 65..90 : Chr(n) = c
    THEN Chr(32 + CHOOSE n \in 65..90 : Chr(n) = c)
    ELSE c

Lower(s) == [i \in 1..Len(s) |-> LowerChar(s[i])]

\* s[from:] with a 0-based Python index
Suffix(s, from) == SubSeq(s, from + 1, Len(s))

\* s[:to] with a 0-based Python index
Prefix(s, to) == SubSeq(s, 1, to)

\* s.startswith(p)
StartsWith(s, p) == Len(s) >= Len(p) /\ SubSeq(s, 1, Len(p)) = p

\* p in s
Contains(s, p) ==
    \E i \in 0..(Len(s) - Len(p)) : SubSeq(s, i + 1, i + Len(p)) = p

\* s.find(c) and s.rfind(c), 0-based, -1 when c does not occur
Find(s, c) ==
    IF \E i \in 1..Len(s) : s[i] = c
    THEN (CHOOSE i \in 1..Len(s) : s[i] = c /\ \A j \in 1..(i - 1) : s[j] # c) - 1
    ELSE -1

RFind(s, c) ==
    IF \E i \in 1..Len(s) : s[i] = c
    THEN (CHOOSE i \in 1..Len(s) : s[i] = c /\ \A j \in (i + 1)..Len(s) : s[j] # c) - 1
    ELSE -1

\* s.split(c)
RECURSIVE Split(_, _)
Split(s, c) ==
    IF Find(s, c) = -1 THEN <<s>>
    ELSE <<Prefix(s, Find(s, c))>> \o Split(Suffix(s, Find(s, c) + 1), c)

\* s.split(c, 1)
Split1(s, c) ==
    IF Find(s, c) = -1 THEN <<s>>
    ELSE <<Prefix(s, Find(s, c)), Suffix(s, Find(s, c) + 1)>>

\* s.strip()
RECURSIVE LStrip(_)
LStrip(s) == IF s # <<>> /\ IsSpace(Head(s)) THEN LStrip(Tail(s)) ELSE s

RECURSIVE RStrip(_)
RStrip(s) ==
    IF s # <<>> /\ IsSpace(s[Len(s)]) THEN RStrip(SubSeq(s, 1, Len(s) - 1)) ELSE s

Strip(s) == RStrip(LStrip(s))

\* a > b on str values (code-point order, a proper prefix is smaller)
RECURSIVE StrGreater(_, _)
StrGreater(a, b) ==
    IF a = <<>> THEN FALSE
    ELSE IF b = <<>> THEN TRUE
    ELSE IF Head(a) # Head(b) THEN Ord(Head(a)) > Ord(Head(b))
    ELSE StrGreater(Tail(a), Tail(b))

\* "sep".join(parts) is not needed: rendered files are kept as line lists.

(***************************************************************************)
(* The containers a discovery can return.  A container is what the engine  *)
(* client exposes of it: name, image.tags[0], ports, attrs.Config.Env and  *)
(* attrs.HostConfig.NanoCpus.  ports is the dict in its key order; a port  *)
(* without host binding maps to None.                                      *)
(***************************************************************************)
NameGw1 ==
    <<"p", "-", "g", "w", "-", "1">>
NameGw2 ==
    <<"p", "-", "g", "w", "-", "2">>
NameMb ==
    <<"p", "-", "M", "B", "-", "1">>
NameDb ==
    <<"p", "-", "d", "b", "-", "1">>
NameCache ==
    <<"p", "-", "c", "a", "c", "h", "e", "-", "1">>
NameHyphen ==
    <<"p", "-", "m", "y", "-", "g", "w", "-", "1">>
TagIgnition ==
    <<"i", "n", "d", "u", "c", "t", "i", "v", "e", "a", "u", "t", "o", "m", "a", "t", "i", "o", "n", "/", "i", "g", "n", "i", "t", "i", "o", "n", ":", "8", ".", "1">>
TagModbus ==
    <<"q", "p", "a", "d", "g", "h", "a", "m", "/", "m", "y", "m", "o", "d", "b", "u", "s", ":", "1", ".", "0">>
TagMSSQL ==
    <<"k", "c", "o", "l", "l", "i", "n", "s", "/", "m", "s", "s", "q", "l", ":", "2", "0", "1", "9">>
TagRedis ==
    <<"r", "e", "d", "i", "s", ":", "7">>
Port8088 ==
    <<"8", "0", "8", "8", "/", "t", "c", "p">>
Port8043 ==
    <<"8", "0", "4", "3", "/", "t", "c", "p">>
Port502 ==
    <<"5", "0", "2", "/", "t", "c", "p">>
Port1433 ==
    <<"1", "4", "3", "3", "/", "t", "c", "p">>
Port6379 ==
    <<"6", "3", "7", "9", "/", "t", "c", "p">>
Host8088 ==
    <<"8", "0", "8", "8">>
Host9088 ==
    <<"9", "0", "8", "8">>
Host8089 ==
    <<"8", "0", "8", "9">>
Host502 ==
    <<"5", "0", "2">>
Host1433 ==
    <<"1", "4", "3", "3">>
IpV4 ==
    <<"0", ".", "0", ".", "0", ".", "0">>
IpV6 ==
    <<":", ":">>
EnvPath ==
    <<"P", "A", "T", "H", "=", "/", "b", "i", "n">>
EnvSa ==
    <<"S", "A", "_", "P", "A", "S", "S", "W", "O", "R", "D", "=", "p", "w", "=", "1">>
OutGwOk ==
    <<"G", "a", "t", "e", "w", "a", "y", " ", "b", "a", "c", "k", "u", "p", " ", "s", "a", "v", "e", "d">>
OutGwFail ==
    <<"E", "r", "r", "o", "r", ":", " ", "g", "a", "t", "e", "w", "a", "y", " ", "n", "o", "t", " ", "r", "u", "n", "n", "i", "n", "g">>
OutDbOk ==
    <<"B", "A", "C", "K", "U", "P", " ", "D", "A", "T", "A", "B", "A", "S", "E", " ", "p", "r", "o", "c", "e", "s", "s", "e", "d">>
OutDbFail ==
    <<"M", "s", "g", " ", "9", "1", "1", ":", " ", "n", "o", " ", "d", "a", "t", "a", "b", "a", "s", "e">>
InputOne ==
    <<"d", "b", "1">>
InputTwo ==
    <<"d", "b", "1", ",", " ", "d", "b", "2">>
ImageName ==
    <<"m", "o", "d", "b", "u", "s">>

Binding(ip, hostPort) == [HostIp |-> ip, HostPort |-> hostPort]

ContainerGw1 ==
    [name |-> NameGw1, tag |-> TagIgnition, env |-> <<EnvPath>>, nano |-> 0,
     ports |-> <<[port |-> Port8088,
                  bindings |-> Some(<<Binding(IpV4, Host8088), Binding(IpV4, Host9088)>>)],
                 [port |-> Port8043, bindings |-> None]>>]

ContainerGw2 ==
    [name |-> NameGw2, tag |-> TagModbus, env |-> <<EnvPath>>, nano |-> 0,
     ports |-> <<[port |-> Port8088, bindings |-> Some(<<Binding(IpV4, Host8089)>>)]>>]

ContainerMb ==
    [name |-> NameMb, tag |-> TagModbus, env |-> <<EnvPath>>, nano |-> 1500000000,
     ports |-> <<[port |-> Port502,
                  bindings |-> Some(<<Binding(IpV4, Host502), Binding(IpV6, Host502)>>)]>>]

ContainerDb ==
    [name |-> NameDb, tag |-> TagMSSQL, env |-> <<EnvPath, EnvSa>>, nano |-> 0,
     ports |-> <<[port |-> Port1433, bindings |-> Some(<<Binding(IpV4, Host1433)>>)]>>]

ContainerCache ==
    [name |-> NameCache, tag |-> TagRedis, env |-> <<EnvPath>>, nano |-> 0,
     ports |-> <<[port |-> Port6379, bindings |-> Some(<<>>)]>>]

ContainerHyphen ==
    [name |-> NameHyphen, tag |-> TagIgnition, env |-> <<EnvPath>>, nano |-> 0,
     ports |-> <<>>]

ContainerPool ==
    {ContainerGw1, ContainerGw2, ContainerMb, ContainerDb,
     ContainerCache, ContainerHyphen}

\* longest container list a discovery returns in the model
MaxContainers == 2

ContainerLists == UNION {[1..n -> ContainerPool] : n \in 0..MaxContainers}

(***************************************************************************)
(* int and float formatting.                                               *)
(***************************************************************************)
RECURSIVE IntToStr(_)
IntToStr(n) ==
    IF n < 10 THEN <<Chr(48 + n)>> ELSE IntToStr(n \div 10) \o <<Chr(48 + (n % 10))>>

RECURSIVE StripZeros(_)
StripZeros(s) ==
    IF s # <<>> /\ s[Len(s)] = "0" THEN StripZeros(SubSeq(s, 1, Len(s) - 1)) ELSE s

RECURSIVE ZeroPad(_, _)
ZeroPad(s, width) == IF Len(s) >= width THEN s ELSE ZeroPad(<<"0">> \o s, width)

\* str(nano_cpus / 1e9) for 0 <= nano_cpus < 10^15: the shortest repr of the
\* quotient, in exponent form below 1e-4
NanoCpusStr(n) ==
    IF n > 0 /\ n < 100000
    THEN LET d == IntToStr(n)
             m == StripZeros(d)
         IN  <<Head(m)>> \o (IF Len(m) > 1 THEN <<".">> \o Tail(m) ELSE <<>>)
             \o <<"e", "-">> \o ZeroPad(IntToStr(10 - Len(d)), 2)
    ELSE LET f == StripZeros(ZeroPad(IntToStr(n % 1000000000), 9))
         IN  IntToStr(n \div 1000000000) \o <<".">> \o (IF f = <<>> THEN <<"0">> ELSE f)

(***************************************************************************)
(* ContainerHandler and its three variants.  A constructor yields either   *)
(* the handler or the exception it raises.                                 *)
(***************************************************************************)
Raise(type, arg) == [raised |-> type, arg |-> arg]

IsRaise(x) == "raised" \in DOMAIN x

\* the whole of s is [^-]+-[^-]+-\d+
IsShortNameForm(s) ==
    LET parts == Split(s, "-")
    IN  /\ Len(parts) = 3
        /\ parts[1] # <<>>
        /\ parts[2] # <<>>
        /\ parts[3] # <<>>
        /\ AllDigits(parts[3])

\* re.search(r"^[^-]+-([^-]+)-\d+$", name): group(1), or None without a match;
\* the "$" matches at the end and before a line feed that ends the name
ShortNameMatch(name) ==
    IF IsShortNameForm(name)
    THEN Some(Split(name, "-")[2])
    ELSE IF /\ name # <<>>
            /\ name[Len(name)] = "\n"
            /\ IsShortNameForm(SubSeq(name, 1, Len(name) - 1))
    THEN Some(Split(name, "-")[2])
    ELSE None

\* ContainerHandler.__init__; c is the index of the container in the discovery
BaseHandler(c, container, kind) ==
    IF ShortNameMatch(container.name) = None
    THEN Raise("AttributeError", <<>>)
    ELSE IF Len(Split(container.tag, ":")) < 2
    THEN Raise("IndexError", <<>>)
    ELSE [kind |-> kind,
          container |-> c,
          container_name |-> Lower(ShortNameMatch(container.name).some),
          image_name |-> Split(container.tag, ":")[1],
          image_tag |-> Split(container.tag, ":")[2],
          dockerfile_content |-> <<>>,
          environment_variables |-> <<>>,
          deploy |-> None]

IgnitionHandler(c, container) ==
    LET h == BaseHandler(c, container, "IgnitionHandler")
    IN  IF IsRaise(h) THEN h
        ELSE [h EXCEPT !.environment_variables = <<IgnitionEula>>]

\* cpus = str(self.nano_cpus_to_cpus(nano_cpus))
get_deploy(container) ==
    [resources |-> [limits |-> [cpus |-> NanoCpusStr(container.nano)]]]

ModbusHandler(c, container) ==
    LET h == BaseHandler(c, container, "ModbusHandler")
    IN  IF IsRaise(h) THEN h
        ELSE [h EXCEPT !.deploy = get_deploy(container)]

RECURSIVE get_sa_password(_, _)
get_sa_password(environment_variables, env_list) ==
    IF env_list = <<>> THEN environment_variables
    ELSE get_sa_password(
             IF StartsWith(Head(env_list), SaPrefix)
             THEN Append(environment_variables,
                         SaPrefix \o Split1(Head(env_list), "=")[2])
             ELSE environment_variables,
             Tail(env_list))

MSSQLHandler(c, container) ==
    LET h == BaseHandler(c, container, "MSSQLHandler")
    IN  IF IsRaise(h) THEN h
        ELSE [h EXCEPT !.environment_variables =
                           get_sa_password(<<MSSQLEula>>, container.env)]

(***************************************************************************)
(* HandlerFactory.                                                         *)
(***************************************************************************)
RegisteredKeys == {KeyIgnition, KeyMSSQL, KeyModbus}

RegisteredKind(image_name) ==
    CASE image_name = KeyIgnition -> "IgnitionHandler"
      [] image_name = KeyMSSQL -> "MSSQLHandler"
      [] image_name = KeyModbus -> "ModbusHandler"

get_handler(c, container) ==
    LET image_name == Split(container.tag, ":")[1]
    IN  IF image_name \in RegisteredKeys
        THEN CASE RegisteredKind(image_name) = "IgnitionHandler" -> IgnitionHandler(c, container)
               [] RegisteredKind(image_name) = "MSSQLHandler" -> MSSQLHandler(c, container)
               [] RegisteredKind(image_name) = "ModbusHandler" -> ModbusHandler(c, container)
        ELSE Raise("HandlerNotFoundError", image_name)

\* BuildManager.get_handlers after a non-empty discovery: the handlers in
\* discovery order, and what the except branch prints for each skipped one
RECURSIVE get_handlers(_, _)
get_handlers(cs, c) ==
    IF c > Len(cs) THEN [handlers |-> <<>>, skipped |-> <<>>]
    ELSE LET r == get_handler(c, cs[c])
             rest == get_handlers(cs, c + 1)
         IN  IF IsRaise(r)
             THEN [handlers |-> rest.handlers,
                   skipped |-> <<[container |-> c, error |-> r]>> \o rest.skipped]
             ELSE [handlers |-> <<r>> \o rest.handlers, skipped |-> rest.skipped]

(***************************************************************************)
(* Backup files of the MSSQL handler and the files of the rendered         *)
(* Dockerfiles.                                                            *)
(***************************************************************************)
BakDb1Jan ==
    <<"/", "b", "a", "c", "k", "u", "p", "s", "/", "d", "b", "1", "_", "2", "0", "2", "3", "0", "1", "0", "1", "_", "0", "0", "0", "0", "0", "0", ".", "b", "a", "k">>
BakDb1Jun ==
    <<"/", "b", "a", "c", "k", "u", "p", "s", "/", "d", "b", "1", "_", "2", "0", "2", "3", "0", "6", "1", "5", "_", "1", "2", "0", "0", "0", "0", ".", "b", "a", "k">>
BakDb1JunLate ==
    <<"/", "b", "a", "c", "k", "u", "p", "s", "/", "d", "b", "1", "_", "2", "0", "2", "3", "0", "6", "1", "5", "_", "1", "2", "0", "0", "0", "1", ".", "b", "a", "k">>
BakDb2Jun ==
    <<"/", "b", "a", "c", "k", "u", "p", "s", "/", "d", "b", "2", "_", "2", "0", "2", "3", "0", "6", "1", "5", "_", "1", "2", "0", "0", "0", "0", ".", "b", "a", "k">>
BakUnder ==
    <<"/", "b", "a", "c", "k", "u", "p", "s", "/", "m", "y", "_", "d", "b", "_", "2", "0", "2", "2", "1", "2", "3", "1", "_", "2", "3", "5", "9", "5", "9", ".", "b", "a", "k">>
BakNoStamp ==
    <<"/", "b", "a", "c", "k", "u", "p", "s", "/", "n", "o", "t", "e", "s", ".", "t", "x", "t">>
BakTrailing ==
    <<"/", "b", "a", "c", "k", "u", "p", "s", "/", "d", "b", "1", "_", "2", "0", "2", "4", "0", "1", "0", "1", "_", "0", "0", "0", "0", "0", "0", ".", "b", "a", "k", ".", "t", "m", "p">>
LsDb1Jan ==
    <<"d", "b", "1", "_", "2", "0", "2", "3", "0", "1", "0", "1", "_", "0", "0", "0", "0", "0", "0", ".", "b", "a", "k">>
LsDb1Jun ==
    <<"d", "b", "1", "_", "2", "0", "2", "3", "0", "6", "1", "5", "_", "1", "2", "0", "0", "0", "0", ".", "b", "a", "k">>
LsDb2Jun ==
    <<"d", "b", "2", "_", "2", "0", "2", "3", "0", "6", "1", "5", "_", "1", "2", "0", "0", "0", "0", ".", "b", "a", "k">>
LsOther ==
    <<"r", "e", "a", "d", "m", "e", ".", "t", "x", "t">>
SrcUuid ==
    <<"/", ".", "u", "u", "i", "d">>
DstUuid ==
    <<"/", "u", "s", "r", "/", "l", "o", "c", "a", "l", "/", "b", "i", "n", "/", "i", "g", "n", "i", "t", "i", "o", "n", "/", "d", "a", "t", "a", "/">>
SrcKeystore ==
    <<"/", "m", "e", "t", "r", "o", "-", "k", "e", "y", "s", "t", "o", "r", "e">>
DstKeystore ==
    <<"/", "u", "s", "r", "/", "l", "o", "c", "a", "l", "/", "b", "i", "n", "/", "i", "g", "n", "i", "t", "i", "o", "n", "/", "d", "a", "t", "a", "/", "l", "o", "c", "a", "l", "/", "m", "e", "t", "r", "o", "-", "k", "e", "y", "s", "t", "o", "r", "e">>
SrcRedundancy ==
    <<"/", "r", "e", "d", "u", "n", "d", "a", "n", "c", "y", ".", "x", "m", "l">>
DstRedundancy ==
    <<"/", "u", "s", "r", "/", "l", "o", "c", "a", "l", "/", "b", "i", "n", "/", "i", "g", "n", "i", "t", "i", "o", "n", "/", "d", "a", "t", "a", "/", "r", "e", "d", "u", "n", "d", "a", "n", "c", "y", ".", "x", "m", "l">>
SrcGwbk ==
    <<"/", "b", "a", "c", "k", "u", "p", ".", "g", "w", "b", "k">>
DstGwbk ==
    <<"/", "r", "e", "s", "t", "o", "r", "e", ".", "g", "w", "b", "k">>
IgnitionData ==
    <<"/", "u", "s", "r", "/", "l", "o", "c", "a", "l", "/", "b", "i", "n", "/", "i", "g", "n", "i", "t", "i", "o", "n", "/", "d", "a", "t", "a", "/">>

\* number of characters of "_" \d{8} "_" \d{6} ".bak"
StampLen == 20

\* s[i:] starts with "_" \d{8} "_" \d{6} ".bak" (i is a 0-based index)
StampAt(s, i) ==
    /\ i >= 0
    /\ i + StampLen <= Len(s)
    /\ s[i + 1] = "_"
    /\ AllDigits(SubSeq(s, i + 2, i + 9))
    /\ s[i + 10] = "_"
    /\ AllDigits(SubSeq(s, i + 11, i + 16))
    /\ SubSeq(s, i + 17, i + 20) = BakExt

\* group 1 of the two patterns can stop at i: "." takes no line feed
GroupEndsAt(s, i) == StampAt(s, i) /\ NoLineFeed(Prefix(s, i))

\* re.match(r"(.*)_(\d{8}_\d{6})\.bak", file): the greedy group 1 ends at the
\* last place the stamp matches; nothing anchors the end of the file name
LatestMatch(file) ==
    IF \E i \in 0..Len(file) : GroupEndsAt(file, i)
    THEN LET i == CHOOSE i \in 0..Len(file) :
                      GroupEndsAt(file, i) /\ \A j \in (i + 1)..Len(file) : ~GroupEndsAt(file, j)
         IN  [some_string |-> Prefix(file, i), date_str |-> SubSeq(file, i + 2, i + 16)]
    ELSE None

\* file_dict keeps its keys in insertion order: a sequence of [key, date]
HasKey(file_dict, key) == \E k \in 1..Len(file_dict) : file_dict[k].key = key

KeyIndex(file_dict, key) == CHOOSE k \in 1..Len(file_dict) : file_dict[k].key = key

\* the loop of get_latest_bak_files over files[i..]
RECURSIVE LatestDict(_, _, _)
LatestDict(files, i, file_dict) ==
    IF i > Len(files) THEN file_dict
    ELSE LET match == LatestMatch(files[i])
         IN  IF match = None THEN LatestDict(files, i + 1, file_dict)
             ELSE IF ~HasKey(file_dict, match.some_string)
             THEN LatestDict(files, i + 1,
                      Append(file_dict, [key |-> match.some_string, date |-> match.date_str]))
             ELSE IF StrGreater(match.date_str,
                                file_dict[KeyIndex(file_dict, match.some_string)].date)
             THEN LatestDict(files, i + 1,
                      [file_dict EXCEPT ![KeyIndex(file_dict, match.some_string)].date =
                                            match.date_str])
             ELSE LatestDict(files, i + 1, file_dict)

\* get_latest_bak_files without the date comparison: the entry seen last wins
RECURSIVE LatestDictLastSeen(_, _, _)
LatestDictLastSeen(files, i, file_dict) ==
    IF i > Len(files) THEN file_dict
    ELSE LET match == LatestMatch(files[i])
         IN  IF match = None THEN LatestDictLastSeen(files, i + 1, file_dict)
             ELSE IF ~HasKey(file_dict, match.some_string)
             THEN LatestDictLastSeen(files, i + 1,
                      Append(file_dict, [key |-> match.some_string, date |-> match.date_str]))
             ELSE LatestDictLastSeen(files, i + 1,
                      [file_dict EXCEPT ![KeyIndex(file_dict, match.some_string)].date =
                                            match.date_str])

get_latest_bak_files_last_seen(files) ==
    LET file_dict == LatestDictLastSeen(files, 1, <<>>)
    IN  [k \in 1..Len(file_dict) |->
            file_dict[k].key \o <<"_">> \o file_dict[k].date \o BakExt]

get_latest_bak_files(files) ==
    LET file_dict == LatestDict(files, 1, <<>>)
    IN  [k \in 1..Len(file_dict) |->
            file_dict[k].key \o <<"_">> \o file_dict[k].date \o BakExt]

\* os.path.basename
Basename(path) == Suffix(path, RFind(path, "/") + 1)

\* re.match(r"^(.*?)_\d{8}_\d{6}\.bak$", base_name): group 1, or None; the
\* "$" matches at the end and before a line feed that ends the name
ShortenMatch(base_name) ==
    IF GroupEndsAt(base_name, Len(base_name) - StampLen)
    THEN Some(Prefix(base_name, Len(base_name) - StampLen))
    ELSE IF /\ base_name # <<>>
            /\ base_name[Len(base_name)] = "\n"
            /\ GroupEndsAt(base_name, Len(base_name) - StampLen - 1)
    THEN Some(Prefix(base_name, Len(base_name) - StampLen - 1))
    ELSE None

\* the shortened_filenames loop of MSSQLHandler.create_dockerfile
RECURSIVE ShortenedFilenames(_)
ShortenedFilenames(bak_files) ==
    IF bak_files = <<>> THEN <<>>
    ELSE LET match == ShortenMatch(Basename(Head(bak_files)))
         IN  (IF match = None THEN <<>> ELSE <<match.some \o BakExt>>)
             \o ShortenedFilenames(Tail(bak_files))

\* zip(xs, ys): as long as the shorter of the two
Zip(xs, ys) ==
    [k \in 1..(IF Len(xs) < Len(ys) THEN Len(xs) ELSE Len(ys)) |-> <<xs[k], ys[k]>>]

(***************************************************************************)
(* Rendered Dockerfiles, kept as the list of their instructions.           *)
(***************************************************************************)
From(image, tag) == [op |-> "FROM", image |-> image, tag |-> tag]

Copy(src, dst) == [op |-> "COPY", src |-> src, dst |-> dst]

User(user) == [op |-> "USER", user |-> user]

Run(cmd, owner, path) == [op |-> "RUN", cmd |-> cmd, owner |-> owner, path |-> path]

Entrypoint(args) == [op |-> "ENTRYPOINT", args |-> args]

\* MSSQLHandler.create_dockerfile, given os.listdir(folder)
MSSQL_create_dockerfile(image_tag, bak_files) ==
    LET shortened_filenames == ShortenedFilenames(bak_files)
        pairs == Zip(bak_files, shortened_filenames)
    IN  <<From(KeyMSSQL, image_tag)>>
        \o [k \in 1..Len(pairs) |->
               Copy(<<"/">> \o pairs[k][1], InitDbDir \o pairs[k][2])]
        \o <<User("root")>>
        \o [k \in 1..Len(shortened_filenames) |->
               Run("chown", "mssql", InitDbDir \o shortened_filenames[k])]
        \o <<User("mssql")>>

Ignition_create_dockerfile(image_tag) ==
    <<From(KeyIgnition, image_tag),
      Copy(SrcUuid, DstUuid),
      Copy(SrcKeystore, DstKeystore),
      Copy(SrcRedundancy, DstRedundancy),
      Copy(SrcGwbk, DstGwbk),
      User("root"),
      Run("chown", "ignition", IgnitionData),
      Run("chgrp", "ignition", IgnitionData),
      Run("chown", "ignition", DstGwbk),
      Run("chgrp", "ignition", DstGwbk),
      User("ignition"),
      Entrypoint(<<"docker-entrypoint.sh", "-r", "/restore.gwbk">>)>>

Modbus_create_dockerfile(image_tag) ==
    <<From(KeyModbus, image_tag), Copy(FileSetup, FileSetup)>>

(***************************************************************************)
(* prepare_files of the three variants.  The replies of the container to   *)
(* exec_run, and the answer typed at the prompt, are inputs.               *)
(***************************************************************************)
IgnitionFiles == <<FileRedundancy, FileUuid, FileKeystore, FileGwbk>>

Ignition_prepare_files(output) ==
    IF ~Contains(output, IgnitionMarker) THEN None ELSE Some(IgnitionFiles)

Modbus_prepare_files == Some(<<FileSetup>>)

\* names = [name.strip() for name in input_string.split(",")]
get_db_names(input_string) ==
    LET parts == Split(input_string, ",")
    IN  [k \in 1..Len(parts) |-> Strip(parts[k])]

\* index of the first database whose backup output lacks the marker, 0 if none
FirstFailedBackup(outputs) ==
    IF \E k \in 1..Len(outputs) : ~Contains(outputs[k], MSSQLMarker)
    THEN CHOOSE k \in 1..Len(outputs) :
             /\ ~Contains(outputs[k], MSSQLMarker)
             /\ \A j \in 1..(k - 1) : Contains(outputs[j], MSSQLMarker)
    ELSE 0

\* outputs[k] is the output of the backup command of the k-th database name,
\* all_baks the lines of the find command
MSSQL_prepare_files(outputs, all_baks) ==
    IF FirstFailedBackup(outputs) # 0 THEN None ELSE Some(get_latest_bak_files(all_baks))

\* an exec_run call of handler h, with the output the container gave
Exec(h, command, arg, output) ==
    [h |-> h, command |-> command, arg |-> arg, output |-> output]

\* the exec_run calls MSSQL prepare_files makes, in order
MSSQL_execs(h, db_names, outputs, all_baks) ==
    LET failed == FirstFailedBackup(outputs)
        n == IF failed = 0 THEN Len(db_names) ELSE failed
    IN  [k \in 1..n |-> Exec(h, "backup.sh", db_names[k], outputs[k])]
        \o (IF failed = 0 THEN <<Exec(h, "find", <<>>, all_baks)>> ELSE <<>>)

(***************************************************************************)
(* DockerUtils.extract_files_from_container.  outcome[k] is what           *)
(* get_archive does for the k-th file: "ok", "NotFound" or "APIError".     *)
(* A fetched file is written under its lower-cased base name and unpacked  *)
(* under the name of the archive member, the base name of the path.        *)
(***************************************************************************)
FetchedNames(file) == {Lower(Suffix(file, RFind(file, "/") + 1)), Basename(file)}

extract_files_from_container(files_to_copy, destination, outcome) ==
    UNION {{<<destination, n>> : n \in FetchedNames(files_to_copy[k])} :
              k \in {j \in 1..Len(files_to_copy) : outcome[j] = "ok"}}

CopiedFiles(h, files_to_copy, outcome) ==
    {[h |-> h, file |-> files_to_copy[k]] :
        k \in {j \in 1..Len(files_to_copy) : outcome[j] = "ok"}}

\* the get_archive outcomes: each fetch succeeds or fails on its own
Outcomes(files_to_copy) ==
    [1..Len(files_to_copy) -> {"ok", "NotFound", "APIError"}]

(***************************************************************************)
(* DockerUtils.create_compose_file.                                        *)
(***************************************************************************)
\* the port_mapping loop over container.ports[k..]
RECURSIVE PortMapping(_)
PortMapping(ports) ==
    IF ports = <<>> THEN <<>>
    ELSE (IF Head(ports).bindings # None /\ Head(ports).bindings.some # <<>>
          THEN <<Head(ports).bindings.some[1].HostPort \o <<":">> \o Head(ports).port>>
          ELSE <<>>)
         \o PortMapping(Tail(ports))

\* a service entry that leaves the deploy key out when the handler has none
ServiceEntryOmittingDeploy(image_name, handler, container) ==
    IF handler.deploy = None
    THEN [container_name |-> handler.container_name,
          image |-> Namespace \o image_name \o <<":">> \o handler.container_name,
          ports |-> PortMapping(container.ports),
          environment |-> handler.environment_variables]
    ELSE [container_name |-> handler.container_name,
          image |-> Namespace \o image_name \o <<":">> \o handler.container_name,
          ports |-> PortMapping(container.ports),
          environment |-> handler.environment_variables,
          deploy |-> handler.deploy]

ServiceEntry(image_name, handler, container) ==
    [container_name |-> handler.container_name,
     image |-> Namespace \o image_name \o <<":">> \o handler.container_name,
     ports |-> PortMapping(container.ports),
     environment |-> handler.environment_variables,
     deploy |-> handler.deploy]

\* the loop over handlers[k..]; services is the dict built so far
RECURSIVE ComposeServices(_, _, _, _, _)
ComposeServices(image_name, hs, cs, k, services) ==
    IF k > Len(hs) THEN services
    ELSE ComposeServices(image_name, hs, cs, k + 1,
             [n \in DOMAIN services \cup {hs[k].container_name} |->
                 IF n = hs[k].container_name
                 THEN ServiceEntry(image_name, hs[k], cs[hs[k].container])
                 ELSE services[n]])

create_compose_file(image_name, hs, cs) ==
    [services |-> ComposeServices(image_name, hs, cs, 1, <<>>)]

\* tag=f"qpadgham/{image_name}:{tag}"
ImageRef(image_name, tag) == Namespace \o image_name \o <<":">> \o tag

(***************************************************************************)
(* State of one run of the tool.                                           *)
(*   containers  what the discovery for the project label returns          *)
(*   pc          "new", then the step run() is at; "done" after the        *)
(*               umbrella build, "raised" when an exception left the tool  *)
(*   error       the exception that left the tool, "" while there is none  *)
(*   handlers    BuildManager.hanlders                                     *)
(*   skipped     the containers get_handlers skipped, with the exception   *)
(*   cur         index of the handler create_derived_images is at          *)
(*   events      the steps taken so far, in order                          *)
(*   execs       the exec_run calls made, with their output                *)
(*   copied      the files fetched out of containers                       *)
(*   builds      the image builds attempted, with their outcome            *)
(*   dirs, disk  the folders and files under the destination folder; a     *)
(*               file is <<folder, name>>, the destination itself is <<>>  *)
(*   compose     the dict dumped to docker-compose.yml, None before        *)
(* and, for the helpers of the MSSQL handler taken alone:                  *)
(*   files, latest_files   argument and result of get_latest_bak_files     *)
(*   bak_files, rendered   os.listdir(folder) and the Dockerfile rendered  *)
(***************************************************************************)
VARIABLES containers, pc, error, handlers, skipped, cur, events, execs,
          copied, builds, dirs, disk, compose,
          files, latest_files, bak_files, rendered

runVars == <<containers, pc, error, handlers, skipped, cur, events, execs,
             copied, builds, dirs, disk, compose>>

helperVars == <<files, latest_files, bak_files, rendered>>

vars == <<containers, pc, error, handlers, skipped, cur, events, execs,
          copied, builds, dirs, disk, compose,
          files, latest_files, bak_files, rendered>>

BaseFolder == <<>>

\* container names are unique on an engine; a run starts on an empty
\* destination folder
DistinctNames(cs) ==
    \A i, j \in 1..Len(cs) : cs[i].name = cs[j].name => i = j

Event(step, h) == [step |-> step, h |-> h]

Init ==
    /\ containers \in {cs \in ContainerLists : DistinctNames(cs)}
    /\ pc = "new"
    /\ error = ""
    /\ handlers = <<>>
    /\ skipped = <<>>
    /\ cur = 0
    /\ events = <<>>
    /\ execs = <<>>
    /\ copied = {}
    /\ builds = <<>>
    /\ dirs = {}
    /\ disk = {}
    /\ compose = None
    /\ files = <<>>
    /\ latest_files = None
    /\ bak_files = <<>>
    /\ rendered = None

\* get_running_containers that returns an empty list instead of raising
get_running_containers_unchecked(cs) == [returned |-> cs]

\* DockerUtils.get_running_containers: the list returned, or the exception
get_running_containers(cs) ==
    IF cs = <<>> THEN Raise("Exception", <<>>) ELSE [returned |-> cs]

\* BuildManager.__init__ followed by the call of run(): the discovery raises
\* on an empty list and nothing of the run happens; otherwise the handlers
\* are resolved and create_derived_images starts at the first one
Construct ==
    /\ pc = "new"
    /\ LET found == get_running_containers(containers)
       IN  IF IsRaise(found)
           THEN /\ pc' = "raised"
                /\ error' = found.raised
                /\ UNCHANGED <<handlers, skipped, cur>>
           ELSE LET r == get_handlers(found.returned, 1)
                IN  /\ handlers' = r.handlers
                    /\ skipped' = r.skipped
                    /\ cur' = 1
                    /\ pc' = IF r.handlers = <<>> THEN "compose" ELSE "folder"
                    /\ error' = error
    /\ UNCHANGED <<containers, events, execs, copied, builds, dirs, disk, compose>>
    /\ UNCHANGED helperVars

\* BuildManager.create_container_folder
ContainerFolder(handler) == Lower(handler.container_name)

CreateContainerFolder ==
    /\ pc = "folder"
    /\ dirs' = dirs \cup {ContainerFolder(handlers[cur])}
    /\ events' = Append(events, Event("folder", cur))
    /\ pc' = "extract"
    /\ UNCHANGED <<containers, error, handlers, skipped, cur, execs, copied,
                   builds, disk, compose>>
    /\ UNCHANGED helperVars

\* ContainerHandler.extract_resources once prepare_files has returned:
\* iterating over None raises TypeError out of run()
Extract(files_to_copy) ==
    /\ events' = Append(events, Event("extract", cur))
    /\ IF files_to_copy = None
       THEN /\ pc' = "raised"
            /\ error' = "TypeError"
            /\ UNCHANGED <<copied, disk>>
       ELSE \E outcome \in Outcomes(files_to_copy.some) :
                /\ disk' = disk \cup extract_files_from_container(
                               files_to_copy.some, ContainerFolder(handlers[cur]), outcome)
                /\ copied' = copied \cup CopiedFiles(cur, files_to_copy.some, outcome)
                /\ pc' = "dockerfile"
                /\ error' = error
    /\ UNCHANGED <<containers, handlers, skipped, cur, builds, dirs, compose>>
    /\ UNCHANGED helperVars

ExtractIgnition ==
    /\ pc = "extract"
    /\ handlers[cur].kind = "IgnitionHandler"
    /\ \E output \in {OutGwOk, OutGwFail} :
           /\ execs' = Append(execs, Exec(cur, "gwcmd.sh", <<>>, output))
           /\ Extract(Ignition_prepare_files(output))

ExtractModbus ==
    /\ pc = "extract"
    /\ handlers[cur].kind = "ModbusHandler"
    /\ execs' = execs
    /\ Extract(Modbus_prepare_files)

\* the inputs of MSSQL prepare_files the model draws from
PromptInputs == {InputOne, InputTwo}

FindOutputs == {<<BakDb1Jan, BakDb1Jun>>, <<BakDb1Jun, BakDb2Jun>>}

ExtractMSSQL ==
    /\ pc = "extract"
    /\ handlers[cur].kind = "MSSQLHandler"
    /\ \E input_string \in PromptInputs :
           LET db_names == get_db_names(input_string)
           IN  \E outputs \in [1..Len(db_names) -> {OutDbOk, OutDbFail}],
                  all_baks \in FindOutputs :
                   /\ execs' = execs \o MSSQL_execs(cur, db_names, outputs, all_baks)
                   /\ Extract(MSSQL_prepare_files(outputs, all_baks))

\* os.listdir(folder): the names in the folder, in any order
ListDir(folder) ==
    LET names == {p[2] : p \in {q \in disk : q[1] = folder}}
    IN  {l \in [1..Cardinality(names) -> names] :
            \A i, j \in 1..Cardinality(names) : l[i] = l[j] => i = j}

\* create_dockerfile of the handler's variant, then save_dockerfile
CreateDockerfile ==
    /\ pc = "dockerfile"
    /\ LET h == handlers[cur]
       IN  \E listing \in (IF h.kind = "MSSQLHandler"
                           THEN ListDir(ContainerFolder(h)) ELSE {<<>>}) :
               handlers' = [handlers EXCEPT ![cur].dockerfile_content =
                   CASE h.kind = "IgnitionHandler" -> Ignition_create_dockerfile(h.image_tag)
                     [] h.kind = "ModbusHandler" -> Modbus_create_dockerfile(h.image_tag)
                     [] h.kind = "MSSQLHandler" -> MSSQL_create_dockerfile(h.image_tag, listing)]
    /\ disk' = disk \cup {<<ContainerFolder(handlers[cur]), DockerfileName>>}
    /\ events' = Append(events, Event("dockerfile", cur))
    /\ pc' = "build"
    /\ UNCHANGED <<containers, error, skipped, cur, execs, copied, builds, dirs, compose>>
    /\ UNCHANGED helperVars

\* DockerUtils.build_image: BuildError and APIError are caught and printed
BuildOutcomes == {"ok", "BuildError", "APIError"}

build_image(h, image_name, tag, outcome) ==
    Append(builds, [h |-> h, tag |-> ImageRef(image_name, tag), outcome |-> outcome])

\* create_derived_image that attempts a failed build a second time
CreateDerivedImageRetrying ==
    /\ pc = "build"
    /\ \E outcome \in BuildOutcomes :
           /\ builds' = build_image(cur, ImageName, handlers[cur].container_name, outcome)
           /\ IF outcome # "ok" /\ ~\E b \in 1..Len(builds) : builds[b].h = cur
              THEN cur' = cur /\ pc' = "build"
              ELSE IF cur < Len(handlers)
              THEN cur' = cur + 1 /\ pc' = "folder"
              ELSE cur' = cur /\ pc' = "compose"
    /\ events' = Append(events, Event("build", cur))
    /\ UNCHANGED <<containers, error, handlers, skipped, execs, copied, dirs, disk, compose>>
    /\ UNCHANGED helperVars

\* ContainerHandler.create_derived_image, then the next round of the loop
CreateDerivedImage ==
    /\ pc = "build"
    /\ \E outcome \in BuildOutcomes :
           builds' = build_image(cur, ImageName, handlers[cur].container_name, outcome)
    /\ events' = Append(events, Event("build", cur))
    /\ IF cur < Len(handlers)
       THEN cur' = cur + 1 /\ pc' = "folder"
       ELSE cur' = cur /\ pc' = "compose"
    /\ UNCHANGED <<containers, error, handlers, skipped, execs, copied, dirs, disk, compose>>
    /\ UNCHANGED helperVars

\* BuildManager.create_compose_file
CreateComposeFile ==
    /\ pc = "compose"
    /\ compose' = create_compose_file(ImageName, handlers, containers)
    /\ disk' = disk \cup {<<BaseFolder, ComposeName>>}
    /\ events' = Append(events, Event("compose", 0))
    /\ pc' = "shim"
    /\ UNCHANGED <<containers, error, handlers, skipped, cur, execs, copied, builds, dirs>>
    /\ UNCHANGED helperVars

\* BuildManager.create_shim
CreateShim ==
    /\ pc = "shim"
    /\ disk' = disk \cup {<<BaseFolder, ShimName>>}
    /\ events' = Append(events, Event("shim", 0))
    /\ pc' = "umbrella"
    /\ UNCHANGED <<containers, error, handlers, skipped, cur, execs, copied, builds,
                   dirs, compose>>
    /\ UNCHANGED helperVars

\* BuildManager.create_build_image: the umbrella Dockerfile, then its build
CreateBuildImage ==
    /\ pc = "umbrella"
    /\ disk' = disk \cup {<<BaseFolder, DockerfileName>>}
    /\ \E outcome \in BuildOutcomes :
           builds' = build_image(0, ImageName, BuildTag, outcome)
    /\ events' = Append(events, Event("umbrella", 0))
    /\ pc' = "done"
    /\ UNCHANGED <<containers, error, handlers, skipped, cur, execs, copied, dirs, compose>>
    /\ UNCHANGED helperVars

Next ==
    \/ Construct
    \/ CreateContainerFolder
    \/ ExtractIgnition
    \/ ExtractModbus
    \/ ExtractMSSQL
    \/ CreateDockerfile
    \/ CreateDerivedImage
    \/ CreateComposeFile
    \/ CreateShim
    \/ CreateBuildImage

Spec == Init /\ [][Next]_vars

(***************************************************************************)
(* The helpers of the MSSQL handler taken alone.                           *)
(***************************************************************************)
\* longest list of file names handed to get_latest_bak_files
MaxFiles == 3

\* lines of the find output, as prepare_files cuts them with splitlines()
BakPool ==
    {BakDb1Jan, BakDb1Jun, BakDb1JunLate, BakDb2Jun, BakUnder, BakNoStamp, BakTrailing}

BakLists == UNION {[1..n -> BakPool] : n \in 0..MaxFiles}

IdleRun ==
    /\ containers = <<>>
    /\ pc = "idle"
    /\ error = ""
    /\ handlers = <<>>
    /\ skipped = <<>>
    /\ cur = 0
    /\ events = <<>>
    /\ execs = <<>>
    /\ copied = {}
    /\ builds = <<>>
    /\ compose = None

InitLatest ==
    /\ IdleRun
    /\ dirs = {}
    /\ disk = {}
    /\ files \in BakLists
    /\ latest_files = None
    /\ bak_files = <<>>
    /\ rendered = None

GetLatestBakFiles ==
    /\ latest_files = None
    /\ latest_files' = Some(get_latest_bak_files(files))
    /\ UNCHANGED <<files, bak_files, rendered>>
    /\ UNCHANGED runVars

NextLatest == GetLatestBakFiles

SpecLatest == InitLatest /\ [][NextLatest]_vars

\* longest folder listing handed to create_dockerfile
MaxListing == 3

LsPool == {LsDb1Jan, LsDb1Jun, LsDb2Jun, LsOther, DockerfileName}

\* a folder lists each name once, in any order
Listings ==
    {l \in UNION {[1..n -> LsPool] : n \in 0..MaxListing} :
        \A i, j \in 1..Len(l) : l[i] = l[j] => i = j}

\* the handler whose Dockerfile is written, and its folder
MSSQLSample == MSSQLHandler(1, ContainerDb)

\* the folder holds the names that os.listdir returns as bak_files
InitDockerfile ==
    /\ IdleRun
    /\ files = <<>>
    /\ latest_files = None
    /\ bak_files \in Listings
    /\ rendered = None
    /\ dirs = {ContainerFolder(MSSQLSample)}
    /\ disk = {<<ContainerFolder(MSSQLSample), bak_files[k]>> : k \in 1..Len(bak_files)}

\* MSSQLHandler.create_dockerfile, then save_dockerfile
CreateMSSQLDockerfile ==
    /\ rendered = None
    /\ rendered' = Some(MSSQL_create_dockerfile(MSSQLSample.image_tag, bak_files))
    /\ disk' = disk \cup {<<ContainerFolder(MSSQLSample), DockerfileName>>}
    /\ UNCHANGED <<files, latest_files, bak_files>>
    /\ UNCHANGED <<containers, pc, error, handlers, skipped, cur, events, execs, copied,
                   builds, dirs, compose>>

NextDockerfile == CreateMSSQLDockerfile

SpecDockerfile == InitDockerfile /\ [][NextDockerfile]_vars

(***************************************************************************)
(* Properties.                                                             *)
(***************************************************************************)
Range(s) == {s[k] : k \in 1..Len(s)}

\* base image of a container: image.tags[0] up to the first colon
BaseImage(container) == Prefix(container.tag, Find(container.tag, ":"))

Registered(container) == BaseImage(container) \in RegisteredKeys

\* handlers[k] is the last handler with its short name: the service entry
\* under that name was built from it
LastWithName(k) ==
    \A j \in (k + 1)..Len(handlers) :
        handlers[j].container_name # handlers[k].container_name

EntryOf(k) == compose.services[handlers[k].container_name]

BackupFailed(e) ==
    \/ e.command = "gwcmd.sh" /\ ~Contains(e.output, IgnitionMarker)
    \/ e.command = "backup.sh" /\ ~Contains(e.output, MSSQLMarker)

\* C1: a backup command whose output lacks the success marker is a soft
\* failure: nothing is copied for that container and no exception leaves the
\* run, which goes on.
C1_BackupFailureIsSoft ==
    \A k \in 1..Len(execs) :
        BackupFailed(execs[k]) =>
            /\ {c \in copied : c.h = execs[k].h} = {}
            /\ pc # "raised"
            /\ error = ""

\* C2: the compose descriptor of N handlers has exactly N services, keyed by
\* the handlers' short names.
C2_OneServicePerHandler ==
    compose # None =>
        /\ Cardinality(DOMAIN compose.services) = Len(handlers)
        /\ DOMAIN compose.services = {handlers[k].container_name : k \in 1..Len(handlers)}

\* C3: a container with an unregistered base image is skipped with
\* HandlerNotFoundError carrying the image name, and get_handlers still
\* returns, in discovery order, a handler of the registered variant for every
\* container whose base image is registered.
C3_UnregisteredSkippedOthersResolved ==
    (pc # "new" /\ \E c \in 1..Len(containers) : ~Registered(containers[c])) =>
        /\ \A c \in 1..Len(containers) :
               ~Registered(containers[c]) =>
                   \E s \in 1..Len(skipped) :
                       /\ skipped[s].container = c
                       /\ skipped[s].error =
                              Raise("HandlerNotFoundError", BaseImage(containers[c]))
        /\ Len(handlers) =
               Cardinality({c \in 1..Len(containers) : Registered(containers[c])})
        /\ \A k \in 1..Len(handlers) :
               /\ Registered(containers[handlers[k].container])
               /\ handlers[k].kind = RegisteredKind(BaseImage(containers[handlers[k].container]))
               /\ \A j \in 1..(k - 1) : handlers[j].container < handlers[k].container

\* C5: with no container discovered an exception is raised at once and
\* nothing of the run takes place.
C5_NoContainersAborts ==
    (containers = <<>> /\ pc # "new") =>
        /\ pc = "raised"
        /\ error = "Exception"
        /\ handlers = <<>>
        /\ skipped = <<>>
        /\ events = <<>>
        /\ execs = <<>>
        /\ copied = {}
        /\ builds = <<>>
        /\ dirs = {}
        /\ disk = {}
        /\ compose = None

C5_Witness == containers = <<>> /\ pc = "raised"

\* C6 as stated: a service entry has a 'deploy' key exactly when its handler
\* has a resource-limit block, and then the key holds that block.
C6_DeployKeyIffBlock ==
    compose # None =>
        \A k \in 1..Len(handlers) :
            LastWithName(k) =>
                /\ ("deploy" \in DOMAIN EntryOf(k)) <=> (handlers[k].deploy # None)
                /\ handlers[k].deploy # None => EntryOf(k).deploy = handlers[k].deploy

\* the number of nano CPUs a cpus string stands for: <int>.<fraction>
RECURSIVE DigitsToInt(_)
DigitsToInt(s) ==
    IF s = <<>> THEN 0
    ELSE DigitsToInt(SubSeq(s, 1, Len(s) - 1)) * 10 + (Ord(s[Len(s)]) - 48)

RECURSIVE PadRight(_, _)
PadRight(s, width) == IF Len(s) >= width THEN s ELSE PadRight(s \o <<"0">>, width)

CpusToNano(cpus) ==
    DigitsToInt(Prefix(cpus, Find(cpus, "."))) * 1000000000
        + DigitsToInt(PadRight(Suffix(cpus, Find(cpus, ".") + 1), 9))

\* C6 amended: every service entry has a 'deploy' key; it holds None for a
\* gateway-application or relational-database handler, and for a
\* protocol-gateway handler the block {resources: {limits: {cpus: <string>}}}
\* whose string is the container's NanoCpus divided by 1e9.
C6_DeployAlwaysPresent ==
    compose # None =>
        \A k \in 1..Len(handlers) :
            LastWithName(k) =>
                /\ "deploy" \in DOMAIN EntryOf(k)
                /\ EntryOf(k).deploy = handlers[k].deploy
                /\ handlers[k].kind \in {"IgnitionHandler", "MSSQLHandler"} =>
                       EntryOf(k).deploy = None
                /\ handlers[k].kind = "ModbusHandler" =>
                       /\ DOMAIN EntryOf(k).deploy = {"resources"}
                       /\ DOMAIN EntryOf(k).deploy.resources = {"limits"}
                       /\ DOMAIN EntryOf(k).deploy.resources.limits = {"cpus"}
                       /\ Find(EntryOf(k).deploy.resources.limits.cpus, ".") > 0
                       /\ CpusToNano(EntryOf(k).deploy.resources.limits.cpus) =
                              containers[handlers[k].container].nano

C6_Witness ==
    /\ compose # None
    /\ \E k \in 1..Len(handlers) :
           /\ handlers[k].kind = "ModbusHandler"
           /\ containers[handlers[k].container].nano > 0
    /\ \E k \in 1..Len(handlers) : handlers[k].kind = "IgnitionHandler"

\* every "hostPort:containerPort" the container publishes
PublishedPorts(container) ==
    UNION {{p.bindings.some[b].HostPort \o <<":">> \o p.port :
               b \in 1..Len(p.bindings.some)} :
              p \in {q \in Range(container.ports) : q.bindings # None}}

\* C7: the 'ports' list of a service entry holds one entry for every host
\* binding of every container port of the source container, and nothing for
\* a port without host binding.
C7_EveryPublishedPort ==
    compose # None =>
        \A k \in 1..Len(handlers) :
            LastWithName(k) =>
                Range(EntryOf(k).ports) = PublishedPorts(containers[handlers[k].container])

\* the steps of a completed run over n handlers
RunSteps(n) ==
    [i \in 1..(4 * n + 3) |->
        IF i <= 4 * n
        THEN Event(<<"folder", "extract", "dockerfile", "build">>[((i - 1) % 4) + 1],
                   ((i - 1) \div 4) + 1)
        ELSE Event(<<"compose", "shim", "umbrella">>[i - 4 * n], 0)]

\* C8: a completed run took every step once, handler by handler in list
\* order (folder, extraction, Dockerfile, build), then compose, shim and the
\* umbrella build last; no build was attempted twice.
C8_StepsOnceInOrder ==
    pc = "done" =>
        /\ events = RunSteps(Len(handlers))
        /\ Len(builds) = Len(handlers) + 1
        /\ \A k \in 1..Len(handlers) : builds[k].h = k
        /\ builds[Len(builds)].h = 0

C8_Witness ==
    /\ pc = "done"
    /\ Len(handlers) >= 2
    /\ \E k \in 1..Len(handlers) : builds[k].outcome # "ok"

\* C9: after a failed derived-image build the run still processes every
\* later handler and produces the compose descriptor (with the failed
\* container's entry), the shim and the umbrella build.
C9_BuildFailureDoesNotStopRun ==
    (/\ pc \in {"done", "raised"}
     /\ \E b \in 1..Len(builds) : builds[b].h > 0 /\ builds[b].outcome # "ok") =>
        /\ pc = "done"
        /\ \A k \in 1..Len(handlers) :
               \A step \in {"folder", "extract", "dockerfile", "build"} :
                   Event(step, k) \in Range(events)
        /\ compose # None
        /\ \A b \in 1..Len(builds) :
               (builds[b].h > 0 /\ builds[b].outcome # "ok") =>
                   handlers[builds[b].h].container_name \in DOMAIN compose.services
        /\ <<BaseFolder, ShimName>> \in disk
        /\ \E b \in 1..Len(builds) : builds[b].h = 0

(***************************************************************************)
(* Properties of the MSSQL helpers.                                        *)
(***************************************************************************)
\* <name>_<8 digits>_<6 digits>.bak and its parts
IsBakName(f) == StampAt(f, Len(f) - StampLen)

NameOf(f) == SubSeq(f, 1, Len(f) - StampLen)

DateOf(f) == DigitsToInt(SubSeq(f, Len(f) - 18, Len(f) - 11))

TimeOf(f) == DigitsToInt(SubSeq(f, Len(f) - 9, Len(f) - 4))

\* the digit suffix of f is not smaller than the one of g
NotOlder(f, g) ==
    \/ DateOf(f) > DateOf(g)
    \/ DateOf(f) = DateOf(g) /\ TimeOf(f) >= TimeOf(g)

\* the result holds one file name per distinct <name> of the input, the input
\* entry of that name with the greatest digit suffix
LatestOfEachName ==
    LET out == latest_files.some
    IN  /\ Len(out) = Cardinality({NameOf(f) : f \in Range(files)})
        /\ \A f \in Range(files) :
               \E k \in 1..Len(out) :
                   /\ out[k] \in Range(files)
                   /\ NameOf(out[k]) = NameOf(f)
                   /\ NotOlder(out[k], f)
        /\ \A k \in 1..Len(out) : out[k] \in Range(files)

\* C4: of backup file names <name>_<8 digits>_<6 digits>.bak, in any order
\* and with repeats, get_latest_bak_files returns one file name per distinct
\* <name>, the input entry of that name with the greatest digit suffix.
C4_LatestPerName ==
    (latest_files # None /\ \A f \in Range(files) : IsBakName(f)) => LatestOfEachName

C4_Witness ==
    /\ latest_files # None
    /\ \A f \in Range(files) : IsBakName(f)
    /\ \E i, j \in 1..Len(files) :
           /\ i < j
           /\ NameOf(files[i]) = NameOf(files[j])
           /\ ~NotOlder(files[j], files[i])
    /\ \E i, j \in 1..Len(files) : NameOf(files[i]) # NameOf(files[j])

Copies(content) == {k \in 1..Len(content) : content[k].op = "COPY"}

Chowns(content) ==
    {k \in 1..Len(content) : content[k].op = "RUN" /\ content[k].cmd = "chown"}

\* C10: every COPY of the rendered Dockerfile takes a backup file of the
\* folder to /docker-entrypoint-initdb.d/<name>.bak with the <name> of that
\* same file, there is one COPY per backup file, and each target has one
\* chown between USER root and USER mssql.
C10_CopyKeepsName ==
    rendered # None =>
        LET content == rendered.some
            baks == {f \in Range(bak_files) : IsBakName(f)}
        IN  /\ \A k \in Copies(content) :
                   \E f \in baks :
                       /\ content[k].src = <<"/">> \o f
                       /\ content[k].dst = InitDbDir \o NameOf(f) \o BakExt
            /\ \A f \in baks :
                   Cardinality({k \in Copies(content) : content[k].src = <<"/">> \o f}) = 1
            /\ Cardinality(Copies(content)) = Cardinality(baks)
            /\ \A k \in Copies(content) :
                   \E c \in Chowns(content) :
                       /\ content[c].path = content[k].dst
                       /\ \E r \in 1..(c - 1) : content[r] = User("root")
                       /\ \E m \in (c + 1)..Len(content) : content[m] = User("mssql")

====
